---------------------------- MODULE Spec2Model ----------------------------
(* Model of src/app.py: the create_product transaction (POST /api/products) *)
(* run by concurrent workers against one relational store, and the          *)
(* get_low_stock_alerts query (GET /api/companies/<id>/alerts/low-stock).   *)
(*                                                                          *)
(* Strings that the code transforms (sku, name) are sequences of one-letter *)
(* strings.  An optional value is a set with at most one element: {} is     *)
(* Python's None.  Prices are integers: the raw price in thousandths, the   *)
(* stored price (Numeric(10, 2)) in hundredths.                             *)
EXTENDS Integers, Sequences, FiniteSets, TLC

\* ------------------------------------------------------------------ bounds
\* Number of concurrent create_product calls.
NumAttempts == 2

\* Largest number of inventory_history rows in a store the alert query reads.
MaxHistory == 2

Attempts == 1..NumAttempts

VARIABLES
    Product,            \* committed rows of table product
    Inventory,          \* committed rows of table inventory
    InventoryHistory,   \* committed rows of table inventory_history
    Warehouse,          \* rows of table warehouse
    Supplier,           \* rows of table supplier
    ProductSupplier,    \* rows of table product_supplier
    session,            \* per call: rows flushed inside the open transaction
    local,              \* per call: the handler's local variables
    pc,                 \* per call: position in create_product
    ret,                \* per call: the return statement taken (line 0: none yet)
                        \* and the product_id its body carries
    asked,              \* per call: the normalized SKU of its request, once it
                        \* passed validation ({} before); only the claims read it
    next_id,            \* the auto-increment counters of the three tables
    now,                \* datetime.utcnow() read by the alert query, in days
    alerts,             \* the "alerts" list of the last low-stock response
    total_alerts,       \* its "total_alerts"
    company_id          \* the company of that response (0: no response yet)

vars == <<Product, Inventory, InventoryHistory, Warehouse, Supplier, ProductSupplier,
          session, local, pc, ret, asked, next_id, now, alerts, total_alerts,
          company_id>>

dbvars == <<Product, Inventory, InventoryHistory>>
refvars == <<Warehouse, Supplier, ProductSupplier>>
alertvars == <<now, alerts, total_alerts, company_id>>
createvars == <<session, local, pc, ret, asked, next_id>>

\* ------------------------------------------------------------ str helpers
\* str.upper() on the letters the model uses.
UpperChar(c) ==
    CASE c = "a" -> "A"
      [] c = "b" -> "B"
      [] OTHER -> c

IsSpace(c) == c = " "

RECURSIVE LStrip(_)
LStrip(s) ==
    IF s = <<>> THEN s
    ELSE IF IsSpace(Head(s)) THEN LStrip(Tail(s)) ELSE s

RECURSIVE RStrip(_)
RStrip(s) ==
    IF s = <<>> THEN s
    ELSE IF IsSpace(s[Len(s)]) THEN RStrip(SubSeq(s, 1, Len(s) - 1)) ELSE s

\* str.strip()
Strip(s) == RStrip(LStrip(s))

\* str.upper()
Upper(s) == [i \in 1..Len(s) |-> UpperChar(s[i])]

\* line 99: sku.strip().upper(), without the upper-casing (a mutant)
NormalizeSkuNoUpper(sku) == Strip(sku)

\* line 99: normalized_sku = sku.strip().upper()
NormalizeSku(sku) == Upper(Strip(sku))

\* --------------------------------------------------------------- decimals
\* Decimal(str(price_raw)).quantize(Decimal('0.01')) under the default
\* context (ROUND_HALF_EVEN): m is the price in thousandths, the result is
\* in hundredths.
QuantizeCents(m) ==
    LET a == IF m < 0 THEN -m ELSE m
        q == a \div 10
        r == a % 10
        up == r > 5 \/ (r = 5 /\ q % 2 = 1)
        c == IF up THEN q + 1 ELSE q
    IN IF m < 0 THEN -c ELSE c

\* int(initial_quantity): an int is kept, a float (in tenths) is truncated
\* towards zero.
IntOf(raw) ==
    IF raw.kind = "int" THEN raw.val
    ELSE IF raw.val < 0 THEN -((-raw.val) \div 10) ELSE raw.val \div 10

\* ------------------------------------------------- decimal.Decimal model
\* The precision of Python's default decimal context (getcontext().prec),
\* under which lines 195 and 197 divide; its rounding is ROUND_HALF_EVEN.
DecimalPrec == 28

\* A non-negative Decimal is [int |-> its coefficient, exp |-> its
\* exponent]; a coefficient is the sequence of its decimal digits, most
\* significant first, without leading zeros (zero is <<>>).
RECURSIVE Digits(_)
Digits(n) == IF n = 0 THEN <<>> ELSE Append(Digits(n \div 10), n % 10)

RECURSIVE ValueOf(_)
ValueOf(d) ==
    IF d = <<>> THEN 0 ELSE 10 * ValueOf(SubSeq(d, 1, Len(d) - 1)) + d[Len(d)]

RECURSIVE Normalized(_)
Normalized(d) ==
    IF d # <<>> /\ Head(d) = 0 THEN Normalized(Tail(d)) ELSE d

Front(d) == SubSeq(d, 1, Len(d) - 1)

Zeros(n) == [i \in 1..n |-> 0]

RECURSIVE LexGeq(_, _)
LexGeq(x, y) ==
    IF x = <<>> THEN TRUE
    ELSE IF Head(x) # Head(y) THEN Head(x) > Head(y)
    ELSE LexGeq(Tail(x), Tail(y))

\* x >= y for coefficients
Geq(x, y) == Len(x) > Len(y) \/ (Len(x) = Len(y) /\ LexGeq(x, y))

RECURSIVE TimesDigit(_, _, _)
\* x * d + carry, digit by digit from the right
TimesDigit(x, d, carry) ==
    IF x = <<>> THEN Digits(carry)
    ELSE LET v == x[Len(x)] * d + carry
         IN IF v < 10 THEN Append(TimesDigit(Front(x), d, 0), v)
            ELSE Append(TimesDigit(Front(x), d, v \div 10), v % 10)

RECURSIVE MinusBorrow(_, _, _)
\* x - y - borrow for x >= y + borrow, with the length of x
MinusBorrow(x, y, borrow) ==
    IF x = <<>> THEN <<>>
    ELSE LET yd == IF y = <<>> THEN 0 ELSE y[Len(y)]
             v == x[Len(x)] - yd - borrow
         IN IF v < 0
            THEN Append(MinusBorrow(Front(x), IF y = <<>> THEN y ELSE Front(y), 1),
                        v + 10)
            ELSE Append(MinusBorrow(Front(x), IF y = <<>> THEN y ELSE Front(y), 0),
                        v)

Minus(x, y) == Normalized(MinusBorrow(x, y, 0))

PlusOne(x) == Normalized(TimesDigit(x, 1, 1))

\* One step of the long division of divmod(x, y): bring down one digit of
\* x and take the next digit of the quotient.
DivisionStep(st, digit, y) ==
    LET r == Normalized(Append(st.rem, digit))
        d == CHOOSE k \in 0..9 :
               /\ Geq(r, Normalized(TimesDigit(y, k, 0)))
               /\ ~Geq(r, Normalized(TimesDigit(y, k + 1, 0)))
    IN [quo |-> Append(st.quo, d),
        rem |-> Minus(r, Normalized(TimesDigit(y, d, 0)))]

RECURSIVE LongDivision(_, _, _)
\* The steps for the digits of x, left to right (split in halves to keep
\* the recursion shallow).
LongDivision(st, x, y) ==
    IF x = <<>> THEN st
    ELSE IF Len(x) = 1 THEN DivisionStep(st, x[1], y)
    ELSE LET h == Len(x) \div 2
             left == LongDivision(st, SubSeq(x, 1, h), y)
         IN IF Len(left.quo) >= Len(st.quo)   \* the left half first
            THEN LongDivision(left, SubSeq(x, h + 1, Len(x)), y)
            ELSE st

\* divmod(x, y) for coefficients, y > 0
DivMod(x, y) ==
    LET st == LongDivision([quo |-> <<>>, rem |-> <<>>], x, y)
    IN [quo |-> Normalized(st.quo), rem |-> st.rem]

RECURSIVE StripZeros(_, _, _)
\* Decimal.__truediv__, exact result: drop trailing zeros while the
\* exponent is below the ideal one
StripZeros(coeff, exp, ideal) ==
    IF exp < ideal /\ coeff # <<>> /\ coeff[Len(coeff)] = 0
    THEN StripZeros(Front(coeff), exp + 1, ideal)
    ELSE [int |-> coeff, exp |-> exp]

\* Decimal._fix: round the coefficient to DecimalPrec digits, half to even
Fix(x) ==
    IF Len(x.int) <= DecimalPrec THEN x
    ELSE LET kept == SubSeq(x.int, 1, DecimalPrec)
             cut == SubSeq(x.int, DecimalPrec + 1, Len(x.int))
             half == Head(cut) = 5 /\ Normalized(Tail(cut)) = <<>>
             up == IF half THEN kept[DecimalPrec] % 2 = 1 ELSE Head(cut) >= 5
             c == IF up THEN PlusOne(kept) ELSE kept
             e == x.exp + Len(cut)
         IN IF Len(c) > DecimalPrec
            THEN [int |-> Front(c), exp |-> e + 1]
            ELSE [int |-> c, exp |-> e]

\* Decimal.__truediv__ for x >= 0 and y > 0
Divide(x, y) ==
    IF x.int = <<>> THEN [int |-> <<>>, exp |-> x.exp - y.exp]
    ELSE LET shift == Len(y.int) - Len(x.int) + DecimalPrec + 1
             exp == x.exp - y.exp - shift
             dm == IF shift >= 0
                   THEN DivMod(x.int \o Zeros(shift), y.int)
                   ELSE DivMod(x.int, y.int \o Zeros(-shift))
             inexact == IF dm.rem # <<>>
                           /\ (dm.quo = <<>> \/ dm.quo[Len(dm.quo)] % 5 = 0)
                        THEN PlusOne(dm.quo) ELSE dm.quo
         IN Fix(IF dm.rem # <<>>
                THEN [int |-> inexact, exp |-> exp]
                ELSE StripZeros(dm.quo, exp, x.exp - y.exp))

\* Decimal(n) for an integer n >= 0
DecimalOf(n) == [int |-> Digits(n), exp |-> 0]

\* int(x): the digits before the decimal point
IntOfDecimal(x) ==
    IF x.exp >= 0 THEN ValueOf(x.int \o Zeros(x.exp))
    ELSE IF Len(x.int) <= -x.exp THEN 0
    ELSE ValueOf(SubSeq(x.int, 1, Len(x.int) + x.exp))

\* --------------------------------------------------------------- requests
Names == { {<<" ", "w">>} }
Skus == { {<<"a">>}, {<<" ", "A", " ">>}, {<<"b">>} }
Prices == { [kind |-> "num", val |-> -15], [kind |-> "num", val |-> 995],
            [kind |-> "num", val |-> 1005] }
Quantities == { [kind |-> "absent", val |-> 0], [kind |-> "int", val |-> 0],
                [kind |-> "int", val |-> 2], [kind |-> "float", val |-> 25] }
WarehouseIds == { {}, {1} }

\* The well-formed JSON bodies a caller may send.
GoodRequests ==
    [json : {TRUE}, name : Names, sku : Skus, price_raw : Prices,
     warehouse_id : WarehouseIds, initial_quantity : Quantities]

BaseRequest ==
    [json |-> TRUE, name |-> {<<" ", "w">>}, sku |-> {<<"a">>},
     price_raw |-> [kind |-> "num", val |-> 1005], warehouse_id |-> {1},
     initial_quantity |-> [kind |-> "int", val |-> 2]]

\* Bodies that fail validation or name no warehouse of the store; json =
\* FALSE is a missing or unparseable body (get_json(silent=True) returns
\* None).
BadRequests ==
    { [BaseRequest EXCEPT !.json = FALSE],
      [BaseRequest EXCEPT !.name = {}],
      [BaseRequest EXCEPT !.name = {<<>>}],
      [BaseRequest EXCEPT !.sku = {}],
      [BaseRequest EXCEPT !.sku = {<<>>}],
      [BaseRequest EXCEPT !.price_raw = [kind |-> "none", val |-> 0]],
      [BaseRequest EXCEPT !.price_raw = [kind |-> "bad", val |-> 0]],
      [BaseRequest EXCEPT !.initial_quantity = [kind |-> "bad", val |-> 0]],
      [BaseRequest EXCEPT !.initial_quantity = [kind |-> "int", val |-> -1]],
      [BaseRequest EXCEPT !.initial_quantity = [kind |-> "float", val |-> -15]],
      [BaseRequest EXCEPT !.warehouse_id = {9}],
      [BaseRequest EXCEPT !.warehouse_id = {9}, !.sku = {<<"b">>}] }

Requests == GoodRequests \cup BadRequests

\* `not x` for an optional string: None or the empty string.
Falsy(opt) == opt = {} \/ opt = {<<>>}

TheOne(opt) == CHOOSE x \in opt : TRUE

\* lines 72-96: the line of the validation failure's return, 0 if none.
Validate(req) ==
    IF ~req.json THEN 74
    ELSE IF Falsy(req.name) \/ Falsy(req.sku) \/ req.price_raw.kind = "none" THEN 81
    ELSE IF req.price_raw.kind = "bad" THEN 89
    ELSE IF req.initial_quantity.kind = "bad" THEN 96
    ELSE IF req.initial_quantity.kind \in {"int", "float"}
            /\ IntOf(req.initial_quantity) < 0 THEN 96
    ELSE 0

\* lines 84, 92: qty = int(data.get('initial_quantity', 0))
QtyOf(req) ==
    IF req.initial_quantity.kind = "absent" THEN 0 ELSE IntOf(req.initial_quantity)

\* The statuses with the IntegrityError handler answering as the generic
\* handler does (a mutant)
StatusIntegrityGeneric(line) ==
    CASE line \in {74, 81, 89, 96, 107} -> 400
      [] line = 102 -> 409
      [] line = 137 -> 201
      [] line \in {142, 147} -> 500

\* The HTTP status of each return statement of create_product.
Status(line) ==
    CASE line \in {74, 81, 89, 96, 107} -> 400
      [] line = 102 -> 409
      [] line = 137 -> 201
      [] line = 142 -> 409
      [] line = 147 -> 500

\* The "error" (or "message") text of each return statement of create_product.
Message(line) ==
    CASE line = 74 -> "Invalid or missing JSON body"
      [] line = 81 -> "Fields name, sku and price are required"
      [] line = 89 -> "price must be a decimal value"
      [] line = 96 -> "initial_quantity must be a non-negative integer"
      [] line = 102 -> "SKU already exists"
      [] line = 107 -> "warehouse_id does not exist"
      [] line = 137 -> "Product created"
      [] line = 142 -> "SKU already exists or integrity constraint violated"
      [] line = 147 -> "Internal server error"

\* --------------------------------------------------------------- storage
NoLocal ==
    [sku |-> <<>>, name |-> <<>>, normalized_sku |-> <<>>, price |-> 0, qty |-> 0,
     warehouse_id |-> {}, product_id |-> 0, inventory_id |-> 0]

NoSession == [P |-> {}, I |-> {}, H |-> {}]

\* line 38: unique=True on product.sku, switched off (a mutant)
SkuTakenNever(sku) == FALSE

\* line 38: unique=True on product.sku, as the engine enforces it against
\* the committed rows.
SkuTaken(sku) == \E p \in Product : p.sku = sku

\* line 100: Product.query.filter_by(sku=normalized_sku).first() sees the
\* committed rows only.
ExistingProduct(sku) == {p \in Product : p.sku = sku}


\* line 106: Warehouse.query.get(warehouse_id)
WarehouseGet(id) == {w \in Warehouse : w.id = id}

\* lines 76-99: the locals of a call whose request passed validation.
LocalsOf(req) ==
    [sku |-> TheOne(req.sku),
     name |-> TheOne(req.name),
     normalized_sku |-> NormalizeSku(TheOne(req.sku)),
     price |-> QuantizeCents(req.price_raw.val),
     qty |-> QtyOf(req),
     warehouse_id |-> req.warehouse_id,
     product_id |-> 0,
     inventory_id |-> 0]

\* lines 111-115: Product(name=name.strip(), sku=normalized_sku, price=price);
\* reorder_threshold takes the column default (line 40).
ProductRow(a, id) ==
    [id |-> id, name |-> Strip(local[a].name), sku |-> local[a].normalized_sku,
     price |-> local[a].price, reorder_threshold |-> 10]

\* lines 120-124: Inventory(product_id, warehouse_id, quantity=qty)
InventoryRow(a, id) ==
    [id |-> id, product_id |-> local[a].product_id,
     warehouse_id |-> TheOne(local[a].warehouse_id), quantity |-> local[a].qty]

\* lines 129-135 with the test `qty >= 0` (a mutant)
HistoryRowsAlways(a, inventory_id) ==
    {[id |-> 0, inventory_id |-> inventory_id, change_amount |-> local[a].qty,
      reason |-> "Initial stock", created_at |-> now]}

\* lines 129-135: the history row of the initial stock, only if qty > 0;
\* created_at takes the column default (line 67) and the id is given when
\* the commit flushes the row (0 until then).
HistoryRows(a, inventory_id) ==
    IF local[a].qty > 0
    THEN {[id |-> 0, inventory_id |-> inventory_id, change_amount |-> local[a].qty,
           reason |-> "Initial stock", created_at |-> now]}
    ELSE {}

\* A return statement of create_product: the handler's locals end with it.
Return(a, line) ==
    /\ pc' = [pc EXCEPT ![a] = "done"]
    /\ ret' = [ret EXCEPT ![a] =
                 [line |-> line,
                  product_id |-> IF line = 137 THEN local[a].product_id ELSE 0]]
    /\ local' = [local EXCEPT ![a] = NoLocal]

\* lines 72-107: validation, the SKU pre-check and the warehouse check.
\* The calls are numbered in the order in which they arrive.
Check(a) ==
    /\ pc[a] = "idle"
    /\ \A b \in Attempts : b < a => pc[b] # "idle"
    /\ \E req \in Requests :
         IF Validate(req) # 0
         THEN /\ Return(a, Validate(req))
              /\ UNCHANGED asked
         ELSE /\ asked' = [asked EXCEPT ![a] = {NormalizeSku(TheOne(req.sku))}]
              /\ IF ExistingProduct(NormalizeSku(TheOne(req.sku))) # {}
                 THEN Return(a, 102)
                 ELSE IF req.warehouse_id # {} /\ WarehouseGet(TheOne(req.warehouse_id)) = {}
                 THEN Return(a, 107)
                 ELSE /\ pc' = [pc EXCEPT ![a] = "begin"]
                      /\ local' = [local EXCEPT ![a] = LocalsOf(req)]
                      /\ UNCHANGED ret
    /\ UNCHANGED <<dbvars, refvars, session, next_id, alertvars>>

\* lines 140, 145: db.session.rollback() keeping what the transaction
\* flushed (a mutant)
RolledBackKeeping(a) ==
    /\ Product' = Product \cup session[a].P
    /\ Inventory' = Inventory \cup session[a].I
    /\ UNCHANGED InventoryHistory
    /\ session' = [session EXCEPT ![a] = NoSession]

\* lines 140, 145: db.session.rollback() discards the rows the transaction
\* flushed; the committed tables are untouched.
RolledBack(a) ==
    /\ UNCHANGED dbvars
    /\ session' = [session EXCEPT ![a] = NoSession]

\* lines 110-117: begin the transaction, add the product and flush it.  The
\* INSERT fails with IntegrityError (lines 139-142) when a committed row
\* holds the SKU.
FlushProduct(a) ==
    /\ pc[a] = "begin"
    /\ IF SkuTaken(local[a].normalized_sku)
       THEN /\ RolledBack(a)
            /\ Return(a, 142)
            /\ UNCHANGED next_id
       ELSE /\ local' = [local EXCEPT ![a].product_id = next_id.product]
            /\ session' = [session EXCEPT ![a].P = {ProductRow(a, next_id.product)}]
            /\ next_id' = [next_id EXCEPT !.product = @ + 1]
            /\ pc' = [pc EXCEPT ![a] = "product_flushed"]
            /\ UNCHANGED <<dbvars, ret>>
    /\ UNCHANGED <<refvars, asked, alertvars>>

\* lines 119-135: add the inventory row and flush it, then add the history
\* row of the initial stock to the session.
FlushInventory(a) ==
    /\ pc[a] = "product_flushed"
    /\ local[a].warehouse_id # {}
    /\ local' = [local EXCEPT ![a].inventory_id = next_id.inventory]
    /\ session' = [session EXCEPT ![a].I = {InventoryRow(a, next_id.inventory)},
                                  ![a].H = HistoryRows(a, next_id.inventory)]
    /\ next_id' = [next_id EXCEPT !.inventory = @ + 1]
    /\ pc' = [pc EXCEPT ![a] = "inventory_flushed"]
    /\ UNCHANGED <<dbvars, refvars, ret, asked, alertvars>>

\* line 110: leaving the with block commits, the product row alone (a mutant)
PublishedProductOnly(a) ==
    /\ Product' = Product \cup session[a].P
    /\ UNCHANGED <<Inventory, InventoryHistory>>
    /\ session' = [session EXCEPT ![a] = NoSession]

\* line 110: leaving the with block commits: every row of the transaction
\* becomes visible in one step.
Published(a) ==
    /\ Product' = Product \cup session[a].P
    /\ Inventory' = Inventory \cup session[a].I
    /\ InventoryHistory' =
         InventoryHistory \cup {[h EXCEPT !.id = next_id.history] : h \in session[a].H}
    /\ session' = [session EXCEPT ![a] = NoSession]

\* lines 110, 137-142: the end of the with block.  The commit fails with
\* IntegrityError when another transaction committed the SKU meanwhile.
Commit(a) ==
    /\ \/ pc[a] = "product_flushed" /\ local[a].warehouse_id = {}
       \/ pc[a] = "inventory_flushed"
    /\ IF SkuTaken(local[a].normalized_sku)
       THEN /\ RolledBack(a)
            /\ Return(a, 142)
            /\ UNCHANGED next_id
       ELSE /\ Published(a)
            /\ Return(a, 137)
            /\ next_id' = [next_id EXCEPT
                             !.history = IF session[a].H = {} THEN @ ELSE @ + 1]
    /\ UNCHANGED <<refvars, asked, alertvars>>

\* lines 144-147: any other exception inside the atomic section (the store
\* unavailable, session.begin() refusing to nest) rolls back and answers 500.
Fault(a) ==
    /\ pc[a] \in {"begin", "product_flushed", "inventory_flushed"}
    /\ RolledBack(a)
    /\ Return(a, 147)
    /\ UNCHANGED <<refvars, asked, next_id, alertvars>>

\* The response body and status of a finished call, as the caller sees them.
Response(a) ==
    [status |-> Status(ret[a].line), text |-> Message(ret[a].line),
     product_id |-> ret[a].product_id]

Init ==
    /\ Product = {}
    /\ Inventory = {}
    /\ InventoryHistory = {}
    /\ Warehouse = {[id |-> 1, company_id |-> 1, name |-> "north"]}
    /\ Supplier = {}
    /\ ProductSupplier = {}
    /\ session = [a \in Attempts |-> NoSession]
    /\ local = [a \in Attempts |-> NoLocal]
    /\ pc = [a \in Attempts |-> "idle"]
    /\ ret = [a \in Attempts |-> [line |-> 0, product_id |-> 0]]
    /\ asked = [a \in Attempts |-> {}]
    /\ next_id = [product |-> 1, inventory |-> 1, history |-> 1]
    /\ now = 100
    /\ alerts = {}
    /\ total_alerts = 0
    /\ company_id = 0

Next ==
    \E a \in Attempts :
        \/ Check(a)
        \/ FlushProduct(a)
        \/ FlushInventory(a)
        \/ Commit(a)
        \/ Fault(a)

Spec == Init /\ [][Next]_vars


\* ------------------------------------------------- get_low_stock_alerts
\* line 152: timedelta(days=30)
WindowDays == 30

\* line 195: Decimal(30)
UsageDays == 30

\* line 152: thirty_days_ago = datetime.utcnow() - timedelta(days=30)
thirty_days_ago == now - WindowDays

\* lines 157-158, 188-189: created_at >= thirty_days_ago and change_amount < 0
RecentOutflow(h) == h.created_at >= thirty_days_ago /\ h.change_amount < 0

\* lines 154-159: the distinct inventory ids with a recent outflow row
recent_sales_subquery == {h.inventory_id : h \in {r \in InventoryHistory : RecentOutflow(r)}}

RECURSIVE SumUsage(_)
\* func.sum(InventoryHistory.change_amount * -1)
SumUsage(rows) ==
    IF rows = {} THEN 0
    ELSE LET h == CHOOSE r \in rows : TRUE
         IN h.change_amount * (-1) + SumUsage(rows \ {h})

\* lines 184-190: total_usage of one inventory row
total_usage(inventory_id) ==
    SumUsage({h \in InventoryHistory :
                h.inventory_id = inventory_id /\ RecentOutflow(h)})

\* lines 193-197: days_until_stockout, None as {}
StockoutDays(current_stock, usage) ==
    IF usage = 0 THEN {}
    ELSE LET avg_daily_usage == Divide(DecimalOf(usage), DecimalOf(UsageDays))
         IN IF avg_daily_usage.int # <<>>
            THEN {IntOfDecimal(Divide(DecimalOf(current_stock), avg_daily_usage))}
            ELSE {}

\* The stock levels and the usage totals of the stores of AlertInit, and
\* StockoutDays on them, computed once.
StockLevels == {1, 7, 10, 50, 60}
UsageTotals == {5 * a + 30 * b : a, b \in 0..MaxHistory}
StockoutTable ==
    [q \in StockLevels |-> [u \in UsageTotals |-> StockoutDays(q, u)] @@ <<>>] @@ <<>>

DaysUntilStockout(current_stock, usage) ==
    IF current_stock \in StockLevels /\ usage \in UsageTotals
    THEN StockoutTable[current_stock][usage]
    ELSE StockoutDays(current_stock, usage)

\* lines 173-176: the outer joins: one joined row per primary association of
\* the product, with its supplier; a single row without supplier if none.
SupplierJoin(p) ==
    LET primary == {ps \in ProductSupplier : ps.product_id = p.id /\ ps.is_primary}
    IN IF primary = {} THEN { {} }
       ELSE { {s \in Supplier : s.id = ps.supplier_id} : ps \in primary }

\* line 179 with <= for < (a mutant)
BelowThresholdOrEqual(i, p) == i.quantity <= p.reorder_threshold

\* line 179: Inventory.quantity < Product.reorder_threshold
BelowThreshold(i, p) == i.quantity < p.reorder_threshold

\* lines 161-180: the rows of the join, filtered
low_stock_items(company) ==
    { [product |-> row[2], current_stock |-> row[1].quantity, warehouse |-> row[3],
       supplier |-> row[4], inventory_id |-> row[1].id] :
      row \in { r \in Inventory \X Product \X Warehouse \X (SUBSET Supplier) :
                  /\ r[1].product_id = r[2].id
                  /\ r[1].warehouse_id = r[3].id
                  /\ r[1].id \in recent_sales_subquery
                  /\ r[4] \in SupplierJoin(r[2])
                  /\ r[3].company_id = company
                  /\ BelowThreshold(r[1], r[2]) } }

\* lines 199-201: supplier_info
SupplierInfo(supplier) ==
    { [id |-> s.id, name |-> s.name, contact_email |-> s.contact_email] : s \in supplier }

\* lines 183-213: the alert of one joined row.  inventory_id is the loop
\* variable of line 183: it tells the entries of the list apart and is not
\* part of the JSON.
AlertOf(item) ==
    [inventory_id |-> item.inventory_id,
     product_id |-> item.product.id,
     product_name |-> item.product.name,
     sku |-> item.product.sku,
     warehouse_id |-> item.warehouse.id,
     warehouse_name |-> item.warehouse.name,
     current_stock |-> item.current_stock,
     threshold |-> item.product.reorder_threshold,
     days_until_stockout |->
         DaysUntilStockout(item.current_stock, total_usage(item.inventory_id)),
     supplier |-> SupplierInfo(item.supplier)]

\* lines 151-215: the handler of GET /api/companies/<company>/alerts/low-stock
get_low_stock_alerts(company) ==
    /\ company_id = 0
    /\ alerts' = {AlertOf(item) : item \in low_stock_items(company)}
    /\ total_alerts' = Cardinality(low_stock_items(company))
    /\ company_id' = company
    /\ UNCHANGED <<dbvars, refvars, createvars, now>>

\* ---------------------------------------------- stores the query reads
\* The ledger rows other writers may have left: (inventory, change, day).
LedgerEvents ==
    << [inventory_id |-> 1, change_amount |-> -5, created_at |-> 69],
       [inventory_id |-> 1, change_amount |-> -5, created_at |-> 70],
       [inventory_id |-> 1, change_amount |-> -5, created_at |-> 101],
       [inventory_id |-> 1, change_amount |-> -30, created_at |-> 70],
       [inventory_id |-> 1, change_amount |-> -30, created_at |-> 100],
       [inventory_id |-> 1, change_amount |-> 4, created_at |-> 90],
       [inventory_id |-> 2, change_amount |-> -30, created_at |-> 69],
       [inventory_id |-> 2, change_amount |-> -30, created_at |-> 70],
       [inventory_id |-> 2, change_amount |-> -30, created_at |-> 100],
       [inventory_id |-> 2, change_amount |-> -30, created_at |-> 101],
       [inventory_id |-> 2, change_amount |-> 50, created_at |-> 80] >>

\* The ledgers of n rows, each listed once (rows in the order of LedgerEvents).
Ledgers(n) ==
    { [k \in 1..n |-> [id |-> k,
                       inventory_id |-> LedgerEvents[pick[k]].inventory_id,
                       change_amount |-> LedgerEvents[pick[k]].change_amount,
                       reason |-> "",
                       created_at |-> LedgerEvents[pick[k]].created_at]] :
      pick \in { f \in [1..n -> 1..Len(LedgerEvents)] :
                   \A k \in 1..(n - 1) : f[k] <= f[k + 1] } }

Range(f) == {f[k] : k \in DOMAIN f}

Suppliers ==
    { [id |-> 1, name |-> "acme", contact_email |-> "a@x"],
      [id |-> 2, name |-> "bolt", contact_email |-> ""],
      [id |-> 3, name |-> "core", contact_email |-> "c@x"] }

\* The associations of product 1: none, one primary, two primaries (the
\* storage does not forbid it), a non-primary one beside a primary.
Associations ==
    { {},
      {[product_id |-> 1, supplier_id |-> 1, is_primary |-> TRUE]},
      {[product_id |-> 1, supplier_id |-> 1, is_primary |-> TRUE],
       [product_id |-> 1, supplier_id |-> 2, is_primary |-> TRUE]},
      {[product_id |-> 1, supplier_id |-> 3, is_primary |-> FALSE]},
      {[product_id |-> 1, supplier_id |-> 1, is_primary |-> TRUE],
       [product_id |-> 1, supplier_id |-> 3, is_primary |-> FALSE]} }

Companies == {1, 2, 3}

\* A store as other operations left it: two products in two warehouses,
\* with a ledger of at most MaxHistory rows.
AlertInit ==
    /\ Product = { [id |-> 1, name |-> <<"w">>, sku |-> <<"A">>, price |-> 100,
                    reorder_threshold |-> 10],
                   [id |-> 2, name |-> <<"v">>, sku |-> <<"B">>, price |-> 250,
                    reorder_threshold |-> 60] }
    /\ \E c \in {1, 2} :
         Warehouse = { [id |-> 1, company_id |-> 1, name |-> "north"],
                       [id |-> 2, company_id |-> c, name |-> "south"] }
    /\ \E q1 \in {1, 7, 10}, q2 \in {50, 60} :
         Inventory = { [id |-> 1, product_id |-> 1, warehouse_id |-> 1, quantity |-> q1],
                       [id |-> 2, product_id |-> 2, warehouse_id |-> 2, quantity |-> q2] }
    /\ \E n \in 0..MaxHistory : \E ledger \in Ledgers(n) :
         InventoryHistory = Range(ledger)
    /\ Supplier = Suppliers
    /\ ProductSupplier \in Associations
    /\ session = [a \in Attempts |-> NoSession]
    /\ local = [a \in Attempts |-> NoLocal]
    /\ pc = [a \in Attempts |-> "done"]
    /\ ret = [a \in Attempts |-> [line |-> 0, product_id |-> 0]]
    /\ asked = [a \in Attempts |-> {}]
    /\ next_id = [product |-> 3, inventory |-> 3, history |-> MaxHistory + 1]
    /\ now = 100
    /\ alerts = {}
    /\ total_alerts = 0
    /\ company_id = 0

AlertNext == \E company \in Companies : get_low_stock_alerts(company)

AlertSpec == AlertInit /\ [][AlertNext]_vars


\* ================================================================ claims
\* What a step adds to the committed tables.
NewProducts == Product' \ Product
NewInventory == Inventory' \ Inventory
NewHistory == InventoryHistory' \ InventoryHistory

\* The finished calls for normalized SKU s that were answered 201 or 409
\* (not rejected for the warehouse, not failed with 500).
Contenders(s) ==
    {a \in Attempts : asked[a] = {s} /\ ret[a].line \in {102, 137, 142}}

Winners(s) == {a \in Contenders(s) : ret[a].line = 137}

AskedSkus == UNION {asked[a] : a \in Attempts}

\* C1: among the create-product calls for one normalized SKU (trimmed,
\* upper-cased) that ran to a 201 or a 409, under every interleaving of
\* their pre-check, flush and commit steps, exactly one got 201 and every
\* other one 409, and the committed store never holds two Product rows
\* whose SKUs are equal after normalization.
C1_ExactlyOneCreates ==
    /\ \A p, q \in Product : Upper(Strip(p.sku)) = Upper(Strip(q.sku)) => p = q
    /\ \A s \in AskedSkus :
         /\ Contenders(s) # {} => Cardinality(Winners(s)) = 1
         /\ \A a \in Winners(s) :
              \E p \in Product : p.id = ret[a].product_id /\ p.sku = s
         /\ \A a \in Contenders(s) \ Winners(s) : Status(ret[a].line) = 409

\* C1 witness: two calls for the same normalized SKU raced past the
\* pre-check; one committed, the other was refused at flush or commit.
C1_Witness ==
    \E a, b \in Attempts :
        /\ a # b
        /\ asked[a] = asked[b]
        /\ ret[a].line = 137
        /\ ret[b].line = 142
        /\ \E p \in Product : p.id = ret[a].product_id

\* C2: the product, inventory and history rows of one create-product call
\* become visible in one step or not at all: a step that adds a Product
\* row for a call that named a warehouse adds its Inventory row (and, for
\* a positive quantity, its InventoryHistory row) with it, no step adds an
\* Inventory or history row without the row it belongs to, and in every
\* state each Inventory row has its Product and each history row its
\* Inventory row.
C2_VisibleTogether ==
    /\ [](/\ \A i \in Inventory : \E p \in Product : p.id = i.product_id
          /\ \A h \in InventoryHistory : \E i \in Inventory : i.id = h.inventory_id)
    /\ [][/\ Product \subseteq Product'
          /\ Inventory \subseteq Inventory'
          /\ InventoryHistory \subseteq InventoryHistory'
          /\ \A i \in NewInventory : \E p \in NewProducts : p.id = i.product_id
          /\ \A h \in NewHistory : \E i \in NewInventory : i.id = h.inventory_id
          /\ \A a \in Attempts :
               (ret[a].line = 0 /\ ret'[a].line = 137 /\ local[a].warehouse_id # {}) =>
                   \E p \in NewProducts : \E i \in NewInventory :
                       /\ p.id = ret'[a].product_id
                       /\ i.product_id = p.id
                       /\ local[a].qty > 0 =>
                            \E h \in NewHistory : h.inventory_id = i.id]_vars

\* C2 witness: a committed product together with its inventory row and the
\* history row of its initial stock.
C2_Witness ==
    \E a \in Attempts : \E p \in Product : \E i \in Inventory : \E h \in InventoryHistory :
        /\ ret[a].line = 137
        /\ p.id = ret[a].product_id
        /\ i.product_id = p.id
        /\ h.inventory_id = i.id

\* C3: a create-product call that ends in a failure leaves the Product,
\* Inventory and InventoryHistory tables as they were: every step of a
\* call other than its successful commit, its failing return included,
\* leaves the three committed tables unchanged.
C3_FailureChangesNothing ==
    [][\A a \in Attempts :
         (pc'[a] # pc[a] /\ ret'[a].line # 137) => UNCHANGED dbvars]_vars

\* C3 witness: one call was refused for its unknown warehouse, another
\* failed with 500 after it had flushed its product and inventory rows, and
\* the store holds no row.
C3_Witness ==
    \E a, b \in Attempts :
        /\ ret[a].line = 107
        /\ ret[b].line = 147
        /\ next_id.inventory > 1
        /\ Product = {} /\ Inventory = {} /\ InventoryHistory = {}

\* C4: a negative price is rejected with InvalidPrice and no Product row
\* is inserted: every Product row has price >= 0.
C4_NoNegativePrice == \A p \in Product : p.price >= 0

\* The response of a conflict the pre-check detects.
PreCheckConflict ==
    [status |-> Status(102), text |-> Message(102), product_id |-> 0]

C6_InitialStockRows ==
    /\ [](\A i \in Inventory :
            LET rows == {h \in InventoryHistory : h.inventory_id = i.id}
            IN IF i.quantity = 0 THEN rows = {}
               ELSE \E h \in rows :
                      /\ rows = {h}
                      /\ h.change_amount = i.quantity
                      /\ h.reason = "Initial stock")
    /\ [][\A a \in Attempts :
            (ret[a].line = 0 /\ ret'[a].line = 137) =>
                IF local[a].warehouse_id = {}
                THEN NewInventory = {} /\ NewHistory = {}
                ELSE \E i \in NewInventory :
                       /\ NewInventory = {i}
                       /\ i.product_id = ret'[a].product_id
                       /\ i.warehouse_id = TheOne(local[a].warehouse_id)
                       /\ i.quantity = local[a].qty
                       /\ Cardinality(NewHistory) = IF local[a].qty > 0 THEN 1 ELSE 0]_vars

\* C6 witness: one product was created with an initial stock of 2 (an
\* inventory row and its history row), another with an initial stock of 0
\* (an inventory row without history).
C6_Witness ==
    \E i, j \in Inventory :
        /\ i.quantity = 2
        /\ \E h \in InventoryHistory : h.inventory_id = i.id /\ h.change_amount = 2
        /\ j.quantity = 0
        /\ \A h \in InventoryHistory : h.inventory_id # j.id

\* ------------------------------------------------ low-stock alert claims
\* The product of an inventory row.
ProductOf(i) == CHOOSE p \in Product : p.id = i.product_id

\* The inventory rows of the queried company's warehouses.
InCompany(i) ==
    \E w \in Warehouse : w.id = i.warehouse_id /\ w.company_id = company_id

\* The alerts of the last response that stand for inventory row i.
AlertsFor(i) == {e \in alerts : e.inventory_id = i.id}

\* C7: the low-stock alert list never contains an Inventory row whose
\* quantity is greater than or equal to its product's reorder_threshold,
\* whatever its recent outflow: every alert has current_stock < threshold,
\* its numbers are those of its inventory row and product, and a row with
\* quantity >= reorder_threshold has no alert.
C7_NeverAtOrAboveThreshold ==
    /\ \A e \in alerts :
         /\ e.current_stock < e.threshold
         /\ \E i \in Inventory :
              /\ i.id = e.inventory_id
              /\ e.current_stock = i.quantity
              /\ e.threshold = ProductOf(i).reorder_threshold
    /\ \A i \in Inventory :
         i.quantity >= ProductOf(i).reorder_threshold => AlertsFor(i) = {}

\* C7 witness: the company was answered with an alert while one of its
\* inventory rows, with stock equal to the threshold and an outflow inside
\* the window, is not alerted.
C7_Witness ==
    /\ company_id # 0
    /\ alerts # {}
    /\ \E i \in Inventory :
         /\ InCompany(i)
         /\ i.quantity = ProductOf(i).reorder_threshold
         /\ i.id \in recent_sales_subquery
         /\ AlertsFor(i) = {}

\* The outflow rows of inventory row id inside the closed window
\* [now - 30 days, now].
ClosedWindowOutflow(id) ==
    {h \in InventoryHistory :
        /\ h.inventory_id = id
        /\ h.change_amount < 0
        /\ h.created_at >= now - WindowDays
        /\ h.created_at <= now}

\* C8: an inventory row is alerted only if it has an outflow row
\* (change_amount < 0) with created_at inside the closed window
\* [now - 30 days, now], and only the outflow rows inside that window count
\* in the total its stockout projection is computed from.
C8_ClosedWindow ==
    \A e \in alerts :
        /\ ClosedWindowOutflow(e.inventory_id) # {}
        /\ e.days_until_stockout =
             DaysUntilStockout(e.current_stock,
                               SumUsage(ClosedWindowOutflow(e.inventory_id)))

\* C9: with total_outflow the sum of the absolute values of the row's
\* negative change_amounts in the window the query reads, every alert has
\* days_until_stockout = floor(current_stock * 30 / total_outflow) when
\* total_outflow > 0, and null otherwise.
C9_FloorOfExactQuotient ==
    \A e \in alerts :
        LET total_outflow == total_usage(e.inventory_id)
        IN IF total_outflow > 0
           THEN e.days_until_stockout = {(e.current_stock * 30) \div total_outflow}
           ELSE e.days_until_stockout = {}

\* The inventory rows that qualify for the queried company: warehouse of
\* the company, quantity below the threshold, a recent outflow row.
Qualifying ==
    {i \in Inventory :
        /\ InCompany(i)
        /\ i.quantity < ProductOf(i).reorder_threshold
        /\ i.id \in recent_sales_subquery}

\* C10: each qualifying inventory row yields exactly one alert entry
\* whatever the number of primary suppliers of its product (supplier null
\* with none, one of them otherwise), no other row yields any, and
\* total_alerts is the number of qualifying rows.
C10_OneAlertPerRow ==
    company_id # 0 =>
        /\ \A i \in Inventory :
             Cardinality(AlertsFor(i)) = IF i \in Qualifying THEN 1 ELSE 0
        /\ \A e \in alerts :
             (e.supplier = {}) <=>
                 ~\E ps \in ProductSupplier : ps.product_id = e.product_id /\ ps.is_primary
        /\ total_alerts = Cardinality(Qualifying)

=============================================================================
